---- MODULE Spec2Model ----
(***************************************************************************)
(* Model of src/check_stack.py: the provisioning orchestrator main() and   *)
(* its bounded-polling primitive wait_until().                             *)
(*                                                                         *)
(* main() is a straight-line checklist; every external call (an HTTP       *)
(* request to the control API, a docker command) is one step whose         *)
(* response is chosen by the environment.  The remote configuration        *)
(* (model, deployment, pipeline, index) is the part of the control plane   *)
(* that the calls of main() read and write.                                *)
(***************************************************************************)
EXTENDS Integers, Sequences, FiniteSets

\* ---------------------------------------------------------------- bounds
\* largest extra time (seconds) one poll of a probe may take
MaxDelay == 2
\* number of consecutive runs of the orchestrator
MaxRuns == 2
\* wait_until on its own: largest timeout_s, sleep_s, and k
MaxTimeout == 6
MaxSleep == 2
MaxK == 3

\* ------------------------------------------------------ program constants
PollTimeout == 600
PollSleep == 10
EXIT_DOCKER == 2
EXIT_UNREACHABLE == 3
EXIT_LIST == 4
EXIT_DOWNLOAD == 5
EXIT_DOWNLOAD_WAIT == 6
EXIT_START == 7
EXIT_START_WAIT == 8
EXIT_PIPELINE == 9
EXIT_INDEX == 10

VARIABLES
    fix,          \* "--fix" in sys.argv
    pc,           \* position of main() (the next external call), or of wait_until
    exitCode,     \* value returned by main(); -1 while it runs
    st,           \* main's local st: status of the last HTTP call (0: none yet)
    code,         \* main's local code: status of the last docker command
    code2,        \* main's local code2: status of the fallback restart (-1: not run)
    have_elser,   \* main's local have_elser
    calls,        \* the external calls of this run, in order; the repeated
                  \* polls of one probe are one entry, their number is polls
    warns,        \* the warn() lines of this run
    seen,         \* the answers this run has received that show a step done
    modelPresent, \* control plane: the target model is installed
    deployed,     \* control plane: its deployment is in state "started"
    pipeline,     \* control plane: the ingest pipeline document
    index,        \* control plane: the index and its mapping
    healthy,      \* environment: every call of this run is answered successfully
    run,          \* number of the current run
    wTimeout,     \* wait_until: timeout_s
    wSleep,       \* wait_until: sleep_s
    elapsed,      \* wait_until: time.time() - t0
    polls,        \* wait_until: number of calls of fn so far
    lat,          \* environment: largest duration of one call of fn
    k,            \* stand-alone wait_until: when fn becomes ready (-1: never)
    byCall        \* stand-alone wait_until: fn is ready from its k-th call on
                  \* (TRUE), or from k*sleep_s seconds after t0 on (FALSE)

vars == <<fix, pc, exitCode, st, code, code2, have_elser, calls, warns, seen,
          modelPresent, deployed, pipeline, index, healthy, run,
          wTimeout, wSleep, elapsed, polls, lat, k, byCall>>

locals == <<st, code, code2, have_elser>>
remote == <<modelPresent, deployed, pipeline, index>>
session == <<fix, healthy, run, lat, k, byCall>>
waitVars == <<wTimeout, wSleep, elapsed, polls>>

ProbeCalls == {"GET_model", "GET_stats"}
MutatingCalls == {"POST_download", "POST_start", "PUT_pipeline", "DELETE_index",
                  "PUT_index", "compose_restart", "docker_restart"}
ReadOnlyCalls == {"docker_ps", "GET_root", "GET_license", "GET_models", "GET_model",
                  "GET_stats", "GET_pipeline", "GET_count", "docker_logs"}

\* the call recorder
Record(c) ==
    calls' = IF c \in ProbeCalls /\ calls # <<>> /\ calls[Len(calls)] = c
             THEN calls ELSE Append(calls, c)

Count(c) == Cardinality({i \in DOMAIN calls : calls[i] = c})

Return(n) == pc' = "exit" /\ exitCode' = n

\* ----------------------------------------------------------- environment
\* status of a call that the control plane answers successfully
Fail(S) == IF healthy THEN S ELSE S \cup {500}
ExitStatus == IF healthy THEN {0} ELSE {0, 1}

\* -------------------------------------------------------------- wait_until
\* line 50: while time.time() - t0 < timeout_s
WaitGuard_early == elapsed + wSleep < wTimeout
WaitGuard == elapsed < wTimeout

\* lines 51-56: one iteration of the loop; fn took d seconds and returned ok_flag
WaitIter_noreturn(ok_flag, d, pcTrue) ==
    /\ WaitGuard
    /\ polls' = polls + 1
    /\ pc' = pc /\ elapsed' = elapsed + d + wSleep
    /\ UNCHANGED <<wTimeout, wSleep>>
WaitIter(ok_flag, d, pcTrue) ==
    /\ WaitGuard
    /\ polls' = polls + 1
    /\ IF ok_flag
       THEN pc' = pcTrue /\ elapsed' = elapsed + d
       ELSE pc' = pc /\ elapsed' = elapsed + d + wSleep
    /\ UNCHANGED <<wTimeout, wSleep>>

\* lines 57-58: the loop condition fails
WaitExpired == ~WaitGuard

\* line 49 (t0 = time.time()) with the arguments of the call
WaitEnter(timeout_s, sleep_s) ==
    /\ wTimeout' = timeout_s /\ wSleep' = sleep_s
    /\ elapsed' = 0 /\ polls' = 0

\* ------------------------------------------------------------------ main
\* line 94
ReachOk_lax(s) == s \in {200, 401}
ReachOk(s) == s = 200

\* line 127
NeedDownload_nofix(f, have) == ~have
NeedDownload_always(f, have) == f
NeedDownload_inverted(f, have) == f /\ have
NeedDownload(f, have) == f /\ ~have

\* line 132
DownloadOk(s) == s \in {200, 201}

\* line 177
StartOk_strict(s) == s \in {200, 201}
StartOk(s) == s \in {200, 201, 409}

\* line 203
PipelineOk(s) == s \in {200, 201}

\* line 234
IndexOk(s) == s \in {200, 201}

\* line 245
NeedFallback(c) == c # 0

\* an answer to a probe: the HTTP status, and what the body holds
ModelAnswers == {<<200, "model">>, <<200, "garbage">>, <<404, "error">>}
StatsAnswers == {<<200, "started">>, <<200, "starting">>, <<200, "garbage">>,
                 <<404, "error">>}

\* lines 136-145: _download_ready
DownloadReady(a) == a[1] = 200 /\ a[2] # "garbage"

\* lines 151-165: _deploy_status
DeployStatus_anystate(a) == a[1] = 200 /\ a[2] # "garbage"
DeployStatus(a) == a[1] = 200 /\ a[2] = "started"

\* lines 37-40: requests raises when no HTTP answer arrives (connection
\* refused, read timeout); nothing in main() or wait_until() catches it, the
\* interpreter prints the traceback and exits with status 1.  The request
\* may have been applied before the answer was lost.
CallAt(p) ==
    CASE p = "reach" -> "GET_root"
      [] p = "license" -> "GET_license"
      [] p = "list_models" -> "GET_models"
      [] p = "download" -> "POST_download"
      [] p = "dl_wait" -> "GET_model"
      [] p = "deploy_start" -> "POST_start"
      [] p \in {"dep_wait", "deploy_peek"} -> "GET_stats"
      [] p = "pipeline_put" -> "PUT_pipeline"
      [] p = "pipeline_get" -> "GET_pipeline"
      [] p = "index_delete" -> "DELETE_index"
      [] p = "index_put" -> "PUT_index"
      [] p = "count" -> "GET_count"
HttpPcs == {"reach", "license", "list_models", "download", "dl_wait", "deploy_start",
            "dep_wait", "deploy_peek", "pipeline_put", "pipeline_get",
            "index_delete", "index_put", "count"}

HttpRaises ==
    /\ pc \in HttpPcs /\ ~healthy
    /\ pc \in {"dl_wait", "dep_wait"} => WaitGuard
    /\ Record(CallAt(pc))
    /\ Return(1)
    /\ pipeline' \in {pipeline} \cup (IF pc = "pipeline_put" THEN {"canonical"} ELSE {})
    /\ index' \in {index}
                 \cup (IF pc = "index_delete" THEN {"absent"} ELSE {})
                 \cup (IF pc = "index_put" /\ index = "absent" THEN {"canonical"} ELSE {})
    /\ UNCHANGED <<locals, warns, modelPresent, deployed, seen, session, waitVars>>

\* lines 14-17: subprocess.run raises when the docker executable is missing
DockerRaises ==
    /\ pc = "docker_ps" /\ ~healthy
    /\ Record("docker_ps")
    /\ Return(1)
    /\ UNCHANGED <<locals, warns, remote, seen, session, waitVars>>

\* lines 85-90
DockerPs ==
    /\ pc = "docker_ps"
    /\ \E c \in ExitStatus :
        /\ code' = c
        /\ Record("docker_ps")
        /\ IF c # 0 THEN Return(EXIT_DOCKER)
                    ELSE pc' = "reach" /\ UNCHANGED exitCode
    /\ UNCHANGED <<st, code2, have_elser, warns, remote, seen, session, waitVars>>

\* lines 93-99
Reachability ==
    /\ pc = "reach"
    /\ \E s \in IF healthy THEN {200} ELSE {200, 401, 500} :
        /\ st' = s
        /\ Record("GET_root")
        /\ IF ~ReachOk(s) THEN Return(EXIT_UNREACHABLE)
                          ELSE pc' = "license" /\ UNCHANGED exitCode
    /\ UNCHANGED <<code, code2, have_elser, warns, remote, seen, session, waitVars>>

\* lines 101-102
License ==
    /\ pc = "license"
    /\ \E s \in Fail({200}) : st' = s
    /\ Record("GET_license")
    /\ pc' = "list_models"
    /\ UNCHANGED <<exitCode, code, code2, have_elser, warns, remote, seen, session,
                   waitVars>>

\* lines 105-125, and the branch of lines 127, 167
ListModels ==
    /\ pc = "list_models"
    /\ \E s \in Fail({200}), parses \in (IF healthy THEN {TRUE} ELSE BOOLEAN) :
        /\ st' = s
        /\ Record("GET_models")
        /\ IF s # 200
           THEN Return(EXIT_LIST) /\ UNCHANGED <<have_elser, warns, seen>>
           ELSE LET have == parses /\ modelPresent IN
                /\ have_elser' = have
                /\ seen' = IF have THEN seen \cup {"listed"} ELSE seen
                /\ warns' = IF have THEN warns ELSE warns \cup {"model_not_found"}
                /\ pc' = IF NeedDownload(fix, have) THEN "download"
                         ELSE IF fix THEN "deploy_start" ELSE "deploy_peek"
                /\ UNCHANGED exitCode
    /\ UNCHANGED <<code, code2, remote, session, waitVars>>

\* lines 130-134, and the entry of wait_until at line 147
Download ==
    /\ pc = "download"
    /\ \E s \in Fail({200, 201}) :
        /\ st' = s
        /\ Record("POST_download")
        /\ IF ~DownloadOk(s)
           THEN Return(EXIT_DOWNLOAD) /\ UNCHANGED waitVars
           ELSE /\ pc' = "dl_wait" /\ UNCHANGED exitCode
                /\ WaitEnter(PollTimeout, PollSleep)
    /\ UNCHANGED <<code, code2, have_elser, warns, remote, seen, session>>

\* lines 136-145 inside wait_until (lines 50-56): one poll of _download_ready;
\* a parseable 200 answer means the model record now exists
DownloadPoll ==
    /\ pc = "dl_wait"
    /\ \E a \in (IF healthy THEN {<<200, "model">>} ELSE ModelAnswers), d \in 0..lat :
        /\ WaitIter(DownloadReady(a), d, "deploy_start")
        /\ modelPresent' = (modelPresent \/ a = <<200, "model">>)
        /\ seen' = IF a = <<200, "model">> THEN seen \cup {"model_ready"} ELSE seen
    /\ Record("GET_model")
    /\ UNCHANGED <<exitCode, locals, warns, deployed, pipeline, index, session>>

\* lines 57-58 and 147-148
DownloadTimeout ==
    /\ pc = "dl_wait"
    /\ WaitExpired
    /\ Return(EXIT_DOWNLOAD_WAIT)
    /\ UNCHANGED <<locals, calls, warns, remote, seen, session, waitVars>>

\* lines 169-179, and the entry of wait_until at line 181; the control plane
\* answers 409 when the deployment is already started, 404 for an unknown model
DeployStart ==
    /\ pc = "deploy_start"
    /\ \E s \in Fail(IF ~modelPresent THEN {404}
                     ELSE IF deployed THEN {409} ELSE {200, 201}) :
        /\ st' = s
        /\ Record("POST_start")
        /\ IF ~StartOk(s)
           THEN Return(EXIT_START) /\ UNCHANGED waitVars
           ELSE /\ pc' = "dep_wait" /\ UNCHANGED exitCode
                /\ WaitEnter(PollTimeout, PollSleep)
    /\ UNCHANGED <<code, code2, have_elser, warns, remote, seen, session>>

\* lines 151-165 inside wait_until (lines 50-56): one poll of _deploy_status;
\* state "started" is reported once the deployment is started
DeployPoll ==
    /\ pc = "dep_wait"
    /\ \E a \in (IF healthy THEN {<<200, "started">>} ELSE StatsAnswers), d \in 0..lat :
        /\ WaitIter(DeployStatus(a), d, "pipeline_put")
        /\ deployed' = (deployed \/ a = <<200, "started">>)
        /\ seen' = IF a = <<200, "started">> THEN seen \cup {"started"} ELSE seen
    /\ Record("GET_stats")
    /\ UNCHANGED <<exitCode, locals, warns, modelPresent, pipeline, index, session>>

\* lines 57-58 and 181-182
DeployTimeout ==
    /\ pc = "dep_wait"
    /\ WaitExpired
    /\ Return(EXIT_START_WAIT)
    /\ UNCHANGED <<locals, calls, warns, remote, seen, session, waitVars>>

\* lines 184-185: read-only mode queries the status once and drops the result
DeployPeek ==
    /\ pc = "deploy_peek"
    /\ Record("GET_stats")
    /\ pc' = "pipeline_get"
    /\ UNCHANGED <<exitCode, locals, warns, remote, seen, session, waitVars>>

\* lines 201-206
PipelinePut ==
    /\ pc = "pipeline_put"
    /\ \E s \in Fail({200, 201}) :
        /\ st' = s
        /\ Record("PUT_pipeline")
        /\ seen' = IF s \in {200, 201} THEN seen \cup {"pipeline_put"} ELSE seen
        /\ IF ~PipelineOk(s)
           THEN Return(EXIT_PIPELINE) /\ UNCHANGED pipeline
           ELSE pc' = "index_delete" /\ pipeline' = "canonical" /\ UNCHANGED exitCode
    /\ UNCHANGED <<code, code2, have_elser, warns, modelPresent, deployed, index,
                   session, waitVars>>

\* lines 208-212, and the branch of lines 228, 238, 242
PipelineGet ==
    /\ pc = "pipeline_get"
    /\ \E s \in Fail(IF pipeline = "absent" THEN {404} ELSE {200}) :
        /\ st' = s
        /\ warns' = IF s = 200 THEN warns ELSE warns \cup {"pipeline_missing"}
    /\ Record("GET_pipeline")
    /\ pc' = "count"
    /\ UNCHANGED <<exitCode, code, code2, have_elser, remote, seen, session, waitVars>>

\* lines 230-231: the status of the delete is printed and not looked at
IndexDelete_checked ==
    /\ pc = "index_delete"
    /\ \E s \in Fail(IF index = "absent" THEN {404} ELSE {200}) :
        /\ st' = s
        /\ index' = IF s = 200 THEN "absent" ELSE index
        /\ IF s = 200 THEN pc' = "index_put" /\ UNCHANGED exitCode
                      ELSE Return(EXIT_INDEX)
    /\ Record("DELETE_index")
    /\ UNCHANGED <<code, code2, have_elser, warns, modelPresent, deployed,
                   pipeline, seen, session, waitVars>>
IndexDelete ==
    /\ pc = "index_delete"
    /\ \E s \in Fail(IF index = "absent" THEN {404} ELSE {200}) :
        /\ st' = s
        /\ index' = IF s = 200 THEN "absent" ELSE index
    /\ Record("DELETE_index")
    /\ pc' = "index_put"
    /\ UNCHANGED <<exitCode, code, code2, have_elser, warns, modelPresent, deployed,
                   pipeline, seen, session, waitVars>>

\* lines 232-237; the control plane refuses (400) to create an index that exists
IndexPut ==
    /\ pc = "index_put"
    /\ \E s \in Fail(IF index = "absent" THEN {200, 201} ELSE {400}) :
        /\ st' = s
        /\ Record("PUT_index")
        /\ seen' = IF s \in {200, 201} THEN seen \cup {"index_put"} ELSE seen
        /\ IF ~IndexOk(s)
           THEN Return(EXIT_INDEX) /\ UNCHANGED index
           ELSE pc' = "restart" /\ index' = "canonical" /\ UNCHANGED exitCode
    /\ UNCHANGED <<code, code2, have_elser, warns, modelPresent, deployed, pipeline,
                   session, waitVars>>

\* lines 243-246
Restart ==
    /\ pc = "restart"
    /\ \E c \in {0, 1} :
        /\ code' = c
        /\ IF NeedFallback(c)
           THEN pc' = "restart_fallback"
                /\ warns' = warns \cup {"compose_restart_failed"}
           ELSE pc' = "count" /\ UNCHANGED warns
    /\ Record("compose_restart")
    /\ UNCHANGED <<exitCode, st, code2, have_elser, remote, seen, session, waitVars>>

\* lines 247-250
RestartFallback_fatal ==
    /\ pc = "restart_fallback"
    /\ \E c \in {0, 1} :
        /\ code2' = c
        /\ IF c # 0 THEN Return(1) ELSE pc' = "count" /\ UNCHANGED exitCode
    /\ Record("docker_restart")
    /\ UNCHANGED <<st, code, have_elser, warns, remote, seen, session, waitVars>>
RestartFallback ==
    /\ pc = "restart_fallback"
    /\ \E c \in {0, 1} : code2' = c
    /\ Record("docker_restart")
    /\ pc' = "count"
    /\ UNCHANGED <<exitCode, st, code, have_elser, warns, remote, seen, session, waitVars>>

\* lines 252-253
CountDocs ==
    /\ pc = "count"
    /\ \E s \in Fail(IF index = "absent" THEN {404} ELSE {200}) : st' = s
    /\ Record("GET_count")
    /\ pc' = "logs"
    /\ UNCHANGED <<exitCode, code, code2, have_elser, warns, remote, seen, session,
                   waitVars>>

\* lines 256-270
LogTail_skipped ==
    /\ pc = "logs"
    /\ Return(0)
    /\ UNCHANGED <<st, code, code2, have_elser, calls, warns, remote, seen, session,
                   waitVars>>
LogTail ==
    /\ pc = "logs"
    /\ \E c \in {0, 1} : code' = c
    /\ Record("docker_logs")
    /\ Return(0)
    /\ UNCHANGED <<st, code2, have_elser, warns, remote, seen, session, waitVars>>

\* line 274 run again (sys.exit(main())): the documented recovery after a
\* fix-mode run that stopped at a fatal step is another fix-mode run
Rerun ==
    /\ pc = "exit" /\ fix /\ exitCode > 0
    /\ run < MaxRuns
    /\ run' = run + 1
    /\ healthy' \in BOOLEAN
    /\ pc' = "docker_ps" /\ exitCode' = -1
    /\ st' = 0 /\ code' = 0 /\ code2' = -1 /\ have_elser' = FALSE
    /\ calls' = <<>> /\ warns' = {} /\ seen' = {}
    /\ elapsed' = 0 /\ polls' = 0
    \* a download or a start that was triggered may complete in the background
    /\ modelPresent' \in {modelPresent}
                        \cup (IF \E i \in DOMAIN calls : calls[i] = "POST_download"
                             THEN {TRUE} ELSE {})
    /\ deployed' \in {deployed}
                    \cup (IF modelPresent' /\ \E i \in DOMAIN calls : calls[i] = "POST_start"
                         THEN {TRUE} ELSE {})
    /\ UNCHANGED <<pipeline, index>>
    /\ UNCHANGED <<fix, lat, k, byCall, wTimeout, wSleep>>

\* the control plane before the first run
RemoteStates ==
    {r \in [modelPresent : BOOLEAN, deployed : BOOLEAN,
            pipeline : {"absent", "stale", "canonical"},
            index : {"absent", "stale", "canonical"}] :
        r.deployed => r.modelPresent}

Init ==
    /\ fix \in BOOLEAN
    /\ pc = "docker_ps" /\ exitCode = -1
    /\ st = 0 /\ code = 0 /\ code2 = -1 /\ have_elser = FALSE
    /\ calls = <<>> /\ warns = {} /\ seen = {}
    /\ \E r \in RemoteStates :
        /\ modelPresent = r.modelPresent /\ deployed = r.deployed
        /\ pipeline = r.pipeline /\ index = r.index
    /\ healthy = FALSE /\ run = 1
    /\ wTimeout = 0 /\ wSleep = 0 /\ elapsed = 0 /\ polls = 0
    /\ lat = MaxDelay /\ k = -1 /\ byCall = FALSE

Next ==
    \/ HttpRaises
    \/ DockerRaises
    \/ DockerPs
    \/ Reachability
    \/ License
    \/ ListModels
    \/ Download
    \/ DownloadPoll
    \/ DownloadTimeout
    \/ DeployStart
    \/ DeployPoll
    \/ DeployTimeout
    \/ DeployPeek
    \/ PipelinePut
    \/ PipelineGet
    \/ IndexDelete
    \/ IndexPut
    \/ Restart
    \/ RestartFallback
    \/ CountDocs
    \/ LogTail
    \/ Rerun

Spec == Init /\ [][Next]_vars

\* ------------------------------------------- wait_until on its own (lines 48-58)
\* fn is a predicate that becomes ready after k intervals and stays ready
\* (k = -1: never ready): either it counts its calls and is ready from the
\* k-th call on, or it is ready from k*sleep_s seconds after t0 on; a call
\* of fn takes d seconds and reads the clock at some moment t of the call
FnReady(t) ==
    /\ k >= 0
    /\ IF byCall THEN polls + 1 >= k ELSE t >= k * wSleep

WaitPoll ==
    /\ pc = "w_loop"
    /\ \E d \in 0..lat : \E e \in 0..d :
        WaitIter(FnReady(elapsed + e), d, "w_true")
    /\ UNCHANGED <<exitCode, locals, calls, warns, remote, seen, session>>

WaitFail ==
    /\ pc = "w_loop"
    /\ WaitExpired
    /\ pc' = "w_false"
    /\ UNCHANGED <<exitCode, locals, calls, warns, remote, seen, session, waitVars>>

InitWait ==
    /\ pc = "w_loop"
    /\ wTimeout \in 0..MaxTimeout /\ wSleep \in 1..MaxSleep
    /\ k \in -1..MaxK /\ lat \in 0..MaxDelay /\ byCall \in BOOLEAN
    /\ elapsed = 0 /\ polls = 0
    /\ fix = FALSE /\ exitCode = -1
    /\ st = 0 /\ code = 0 /\ code2 = -1 /\ have_elser = FALSE
    /\ calls = <<>> /\ warns = {} /\ seen = {}
    /\ modelPresent = FALSE /\ deployed = FALSE
    /\ pipeline = "absent" /\ index = "absent"
    /\ healthy = FALSE /\ run = 1

NextWait ==
    \/ WaitPoll
    \/ WaitFail

WaitSpec == InitWait /\ [][NextWait]_vars

\* the interpreter keeps executing a loop that can take a step
FairWaitSpec == WaitSpec /\ WF_vars(NextWait)

\* ------------------------------------------------------------- properties
Last(q) == q[Len(q)]
Issued(c) == \E i \in DOMAIN calls : calls[i] = c
Exited == pc = "exit"
\* the run ended in an uncaught exception of its last call
Crashed == Exited /\ exitCode = 1
Canonical ==
    /\ modelPresent /\ deployed
    /\ pipeline = "canonical" /\ index = "canonical"

\* C1: a run without --fix issues no mutating call (no POST, PUT, DELETE, no
\* restart of the dependent service), whatever the control API answers; all
\* its calls are GET requests and read-only docker commands.
C1_ReadOnlyNeverMutates ==
    ~fix => \A i \in DOMAIN calls :
                calls[i] \notin MutatingCalls /\ calls[i] \in ReadOnlyCalls
C1_Witness == ~fix /\ Exited /\ exitCode = 0 /\ "model_not_found" \in warns

\* C2: a fix-mode run that follows a fix-mode run stopped at a fatal step, and
\* that has every call answered successfully, returns 0 and leaves the remote
\* configuration of an uninterrupted successful fix-mode run: model present,
\* deployment started, canonical pipeline, canonical index.
C2_RerunRecovers ==
    /\ (Exited /\ run > 1 /\ healthy) => (exitCode = 0 /\ Canonical)
    /\ (Exited /\ run = 1 /\ fix /\ exitCode = 0) => Canonical
C2_Witness == Exited /\ run > 1 /\ healthy /\ exitCode = 0 /\ Issued("POST_download")

\* C5: in fix mode a 409 answer of the deployment start-trigger is not the
\* activation-trigger failure: the run goes on to the activation readiness
\* poll in the same state as after a 200 or a 201.
C5_ConflictIsSuccess ==
    (calls # <<>> /\ Last(calls) = "POST_start" /\ st \in {200, 201, 409} /\ ~Crashed) =>
        /\ pc = "dep_wait" /\ exitCode = -1
        /\ wTimeout = PollTimeout /\ wSleep = PollSleep
        /\ elapsed = 0 /\ polls = 0
C5_Witness == calls # <<>> /\ Last(calls) = "POST_start" /\ st = 409 /\ pc = "dep_wait"

\* C6: in fix mode the index step always issues the delete call first, and
\* the create call follows it whatever the delete call returned (a delete
\* call that does not return, because the request raised, ends the run).
C6_DeleteThenCreate ==
    /\ \A i \in DOMAIN calls :
        /\ calls[i] = "PUT_index" => (i > 1 /\ calls[i - 1] = "DELETE_index")
        /\ calls[i] = "DELETE_index" =>
              IF i < Len(calls) THEN calls[i + 1] = "PUT_index"
                                ELSE (pc = "index_put" /\ exitCode = -1) \/ Crashed
        /\ calls[i] = "PUT_pipeline" /\ i < Len(calls) => calls[i + 1] = "DELETE_index"
    /\ (Exited /\ fix /\ exitCode \in {0, EXIT_INDEX}) =>
        (Issued("DELETE_index") /\ Issued("PUT_index"))
C6_Witness == pc = "index_put" /\ Last(calls) = "DELETE_index" /\ st = 404

\* C7: a 401 answer to the reachability check, in either mode, ends the run
\* with exit code 3; no call is made after it and the check is made once.
C7_UnauthorizedHalts ==
    (calls # <<>> /\ Last(calls) = "GET_root" /\ st = 401) =>
        /\ Exited /\ exitCode = EXIT_UNREACHABLE
        /\ calls = <<"docker_ps", "GET_root">>
C7_Witness == Exited /\ st = 401 /\ run = 1 /\ ~fix

\* C8: the download trigger is issued only in fix mode and only when the
\* listing did not contain the target model; when the listing contains it,
\* the acquisition step (trigger and readiness probe) is skipped.
C8_DownloadOnlyWhenMissing ==
    /\ Issued("POST_download") => (fix /\ ~have_elser)
    /\ have_elser => (~Issued("POST_download") /\ ~Issued("GET_model"))
    /\ Count("POST_download") <= 1
C8_Witness == fix /\ have_elser /\ Exited /\ exitCode = 0

\* C9: in fix mode a failing primary restart is followed by the fallback
\* restart, exactly once; a failing fallback leaves a warning and the run
\* goes on to the count query and the log tail; a restart never changes
\* the exit code (after a restart the run returns 0, unless the count query
\* itself raises).
C9_RestartFallback ==
    /\ (pc = "count" /\ fix) =>
        /\ Count("compose_restart") = 1
        /\ Count("docker_restart") = (IF code # 0 THEN 1 ELSE 0)
    /\ code2 > 0 =>
        /\ "compose_restart_failed" \in warns
        /\ pc \in {"count", "logs"} \/ Exited
    /\ (Issued("compose_restart") /\ Exited) =>
        /\ Issued("GET_count")
        /\ \/ exitCode = 0 /\ Last(calls) = "docker_logs"
           \/ Crashed /\ Last(calls) = "GET_count"
C9_Witness == Exited /\ exitCode = 0 /\ code2 > 0 /\ Issued("docker_logs")

\* C10 as stated: every run, whatever its outcome, executes the count query
\* and the log tail.
C10_DiagnosticsAlwaysRun ==
    Exited => (Issued("GET_count") /\ Issued("docker_logs"))

\* C10: every run that is not stopped by a fatal step, in read-only and in
\* fix mode, executes the count query and then the log tail before it
\* returns; a run stopped by a fatal step executes neither.
C10_DiagnosticsUnlessFatal ==
    Exited =>
        IF exitCode = 0
        THEN Len(calls) >= 2 /\ calls[Len(calls) - 1] = "GET_count"
             /\ Last(calls) = "docker_logs"
        ELSE /\ ~Issued("docker_logs")
             /\ exitCode \in EXIT_DOCKER..EXIT_INDEX => ~Issued("GET_count")
C10_Witness == Exited /\ exitCode = 0 /\ ~fix /\ "pipeline_missing" \in warns

\* ---------------------------------------------- properties of wait_until
Returned == pc \in {"w_true", "w_false"}
KInBudget == k >= 1 /\ k * wSleep < wTimeout

\* C3 as stated: fn ready after k intervals, k*interval < timeout: success
\* after exactly k polls.
C3_ExactlyKPolls ==
    (Returned /\ KInBudget) => (pc = "w_true" /\ polls = k)

\* C3: fn ready after k intervals, k*interval < timeout.  wait_until never
\* calls fn again after fn was ready.  When the calls of fn take no time it
\* returns success: after exactly k polls if fn is ready from its k-th call
\* on, after exactly k+1 polls (at 0, interval, ..., k*interval) if fn is
\* ready from k intervals after the start on.  When the calls take time it
\* never polls more often than that, but it may time out first.
PollsNeeded == IF byCall THEN k ELSE k + 1
C3_PollsUntilReady ==
    KInBudget =>
        /\ polls <= PollsNeeded
        /\ pc = "w_true" =>
            /\ polls >= 1
            /\ byCall => polls = k
            /\ ~byCall => elapsed >= k * wSleep
        /\ (Returned /\ lat = 0) => (pc = "w_true" /\ polls = PollsNeeded)
C3_Witness == pc = "w_true" /\ k >= 2 /\ lat = 0 /\ ~byCall /\ polls = k + 1

\* C4 as stated: fn never ready: failure, not before the timeout and within
\* one poll interval of it.
C4_WithinOneInterval ==
    (k = -1 /\ Returned) =>
        (pc = "w_false" /\ elapsed >= wTimeout /\ elapsed <= wTimeout + wSleep)

\* C4: fn never ready: wait_until returns, and returns failure, never
\* before the timeout has elapsed, and within one poll interval plus the
\* duration of one call of fn after it.
C4_FailureState ==
    k = -1 =>
        /\ pc # "w_true"
        /\ pc = "w_false" =>
            (elapsed >= wTimeout /\ elapsed < wTimeout + wSleep + lat)
C4_FailsAfterTimeout == []C4_FailureState /\ (k = -1 => <>(pc = "w_false"))
C4_Witness == k = -1 /\ pc = "w_false" /\ polls >= 2 /\ elapsed > wTimeout + wSleep

\* ------------------------------------------------- exit codes of main()
FatalCodes == {EXIT_DOCKER, EXIT_UNREACHABLE, EXIT_LIST, EXIT_DOWNLOAD,
               EXIT_DOWNLOAD_WAIT, EXIT_START, EXIT_START_WAIT, EXIT_PIPELINE,
               EXIT_INDEX}

\* the call at which a run with fatal code c has halted
HaltCall(c) ==
    CASE c = EXIT_DOCKER -> "docker_ps"
      [] c = EXIT_UNREACHABLE -> "GET_root"
      [] c = EXIT_LIST -> "GET_models"
      [] c = EXIT_DOWNLOAD -> "POST_download"
      [] c = EXIT_DOWNLOAD_WAIT -> "GET_model"
      [] c = EXIT_START -> "POST_start"
      [] c = EXIT_START_WAIT -> "GET_stats"
      [] c = EXIT_PIPELINE -> "PUT_pipeline"
      [] c = EXIT_INDEX -> "PUT_index"

\* C11: every run that ends has either returned 0, after its last step, or
\* one of nine pairwise distinct non-zero codes, and that code names the
\* step at which the run halted; no run ends in any other way.
C11_ExitCodeNamesStep ==
    /\ Cardinality(FatalCodes) = 9 /\ 0 \notin FatalCodes
    /\ Exited =>
        IF exitCode = 0
        THEN Last(calls) = "docker_logs"
        ELSE exitCode \in FatalCodes /\ Last(calls) = HaltCall(exitCode)

\* C12: a fix-mode run returns 0 only after it has seen the target model in
\* the listing or in an answer to the acquisition probe, state "started" in
\* an answer to the activation probe, a 200 or 201 answer to the pipeline
\* PUT and a 200 or 201 answer to the index PUT.
C12_SuccessNeedsAllFour ==
    (Exited /\ fix /\ exitCode = 0) =>
        /\ "listed" \in seen \/ "model_ready" \in seen
        /\ "started" \in seen
        /\ "pipeline_put" \in seen
        /\ "index_put" \in seen
C12_Witness ==
    /\ Exited /\ fix /\ exitCode = 0
    /\ seen = {"model_ready", "started", "pipeline_put", "index_put"}

====
